---- MODULE Spec2Model ----
(***************************************************************************)
(* Model of mfbp/segy_io.py: the wavelet and pick readers and the two      *)
(* shot-gather selectors.  Every function is a single call on values the   *)
(* caller holds, so the state is the caller's data (a trace stream, a pick *)
(* table, the files on disk) together with the last call made and what it  *)
(* returned or raised.                                                     *)
(***************************************************************************)
EXTENDS Integers, Sequences, FiniteSets, TLC

VARIABLES
    stream,     \* the caller's obspy.Stream: traces in file order
    picks,      \* the caller's picks DataFrame: rows in file order
    stream0,    \* the stream as it was first read (history)
    picks0,     \* the pick table as it was first read (history)
    wavFile,    \* the wavelet file at filepath
    pickFile,   \* the picks CSV file at filepath
    op,         \* name of the last function called ("none" before any call)
    arg,        \* its second argument (ffid or fmt), 0 when it has none
    called,     \* names of the functions called so far (history)
    ret         \* what the call returned or raised

vars == <<stream, picks, stream0, picks0, wavFile, pickFile, op, arg, called, ret>>

\* ------------------------------------------------------------------------
\* Bounds

MaxInput == 3     \* traces plus pick rows the caller holds
MaxFfid == 2      \* field record numbers present in the data are 1..MaxFfid
MaxFloats == 4    \* float64 values in a binary wavelet file
MaxLines == 3     \* lines (header included) in a wavelet CSV file
MaxPickRows == 1  \* data rows in a picks CSV file

\* ------------------------------------------------------------------------
\* Data

Ffids == 1..MaxFfid
QueryFfids == 0..MaxFfid      \* 0 is a shot number no trace and no row carries
Times == {0, 1}
Channels == {1, 2}

\* A trace: tid is its identity (position in the file), FieldRecord the
\* tr.stats.segy.trace_header.FieldRecord field.
StreamsOfLen(n) ==
    {[i \in 1..n |-> [tid |-> i, FieldRecord |-> h[i]]] : h \in [1..n -> Ffids]}

PickRow == [TIME : Times, FFID : Ffids, CHANNEL : Channels]

TablesOfLen(n) == [1..n -> PickRow]

\* Every call leaves a record of the same shape in ret.
NoTable == [columns |-> {}, data |-> <<>>]

\* Every call leaves a record of the same shape in ret.
\*   kind       "ok" (returned) or "error" (raised)
\*   exc, err   the Python exception class and its error category
\*   value, accepted, names   what the error message shows
\*   seq        the returned stream or frame of a selector
\*   time, amplitude   the arrays read_wavelet returned
\*   table      the frame read_picks returned
\*   opened     whether the call went to the file at filepath
NoValue == [kind |-> "none", exc |-> "", err |-> "", value |-> "", accepted |-> {},
            names |-> {}, seq |-> <<>>, time |-> <<>>, amplitude |-> <<>>,
            table |-> NoTable, opened |-> FALSE]

\* A wavelet file: what np.fromfile reads from it as float64 values and the
\* lines of comma-separated tokens np.loadtxt reads from it.
NoFile == [exists |-> FALSE, floats |-> <<>>, lines |-> <<>>]

FloatVals == {1, 2}
Tokens == {"1", "2", "t"}          \* "t" is text that is not a number
Lines == UNION {[1..n -> Tokens] : n \in {1, 2}}
JunkText == <<<<"t">>, <<"t">>>>     \* a binary file seen as text

BinaryFiles ==
    {[exists |-> TRUE, floats |-> v, lines |-> JunkText] :
        v \in UNION {[1..n -> FloatVals] : n \in 0..MaxFloats}}

\* The bytes of a text file seen as float64 values: an even or an odd count.
TextFiles ==
    {[exists |-> TRUE, floats |-> v, lines |-> t] :
        v \in {<<>>, <<1>>}, t \in UNION {[1..n -> Lines] : n \in 0..MaxLines}}

\* A picks file: whether it is there, whether pandas can parse it, and the
\* frame it parses to (a mapping from column name to column values).
NoPickFile == [exists |-> FALSE, wellformed |-> FALSE, table |-> NoTable]
BadPickFile == [exists |-> TRUE, wellformed |-> FALSE, table |-> NoTable]

ColNames == {"TIME", "FFID", "CHANNEL", "time", "QUALITY"}

PickTables ==
    UNION {{[columns |-> cols, data |-> d] :
              d \in [cols -> [1..k -> {0, 1}]]} :
           cols \in SUBSET ColNames, k \in 0..MaxPickRows}

PickFiles ==
    {NoPickFile, BadPickFile}
    \cup {[exists |-> TRUE, wellformed |-> TRUE, table |-> t] : t \in PickTables}

\* ------------------------------------------------------------------------
\* get_gather

\* stream.select(id=None): obspy's select skips a trace only when a given
\* criterion does not match it; with no criterion given it returns a new
\* Stream holding every trace of the stream.
select(s) == s

\* for tr in stream: if tr...FieldRecord == ffid: gather.append(tr)
RECURSIVE gather_loop(_, _, _, _)
gather_loop(s, ffid, i, gather) ==
    IF i > Len(s) THEN gather
    ELSE gather_loop(s, ffid, i + 1,
                     IF s[i].FieldRecord = ffid THEN Append(gather, s[i])
                     ELSE gather)

\* The returned gather and the stream as the call leaves it: the gather is a
\* Stream object of its own, so appending to it does not touch the input.
get_gather(s, ffid) ==
    [gather |-> gather_loop(s, ffid, 1, select(s)), stream |-> s]

\* ------------------------------------------------------------------------
\* get_picks_for_gather

\* picks[picks["FFID"] == ffid]: the matching rows, as a new frame, in order.
RECURSIVE boolean_index(_, _)
boolean_index(p, ffid) ==
    IF p = <<>> THEN <<>>
    ELSE (IF Head(p).FFID = ffid THEN <<Head(p)>> ELSE <<>>)
         \o boolean_index(Tail(p), ffid)

IsSortedBy(q) == \A i \in 1..(Len(q) - 1) : q[i].CHANNEL <= q[i + 1].CHANNEL

Reorderings(q) ==
    {[i \in 1..Len(q) |-> q[pi[i]]] : pi \in Permutations(1..Len(q))}

\* .sort_values("CHANNEL"): ascending, default kind "quicksort", which is not
\* a stable sort: rows of equal CHANNEL may come out in any order.  Returns a
\* new frame (inplace=False).
sort_values(q) == {r \in Reorderings(q) : IsSortedBy(r)}

\* In-place variant: the caller's frame is replaced by the sorted selection.
get_picks_for_gather_inplace(p, ffid) ==
    {[result |-> r, picks |-> r] : r \in sort_values(boolean_index(p, ffid))}

\* Variant without the sort.
get_picks_for_gather_unsorted(p, ffid) ==
    {[result |-> boolean_index(p, ffid), picks |-> p]}

\* The possible outcomes: the returned frame and the input as the call
\* leaves it.
get_picks_for_gather(p, ffid) ==
    {[result |-> r, picks |-> p] : r \in sort_values(boolean_index(p, ffid))}

\* ------------------------------------------------------------------------
\* Calls

Call_get_gather ==
    \E ffid \in QueryFfids :
        LET out == get_gather(stream, ffid) IN
        /\ op' = "get_gather"
        /\ called' = called \cup {"get_gather"}
        /\ arg' = ffid
        /\ ret' = [NoValue EXCEPT !.kind = "ok", !.seq = out.gather]
        /\ stream' = out.stream
        /\ UNCHANGED <<picks, stream0, picks0, wavFile, pickFile>>

Call_get_picks_for_gather ==
    \E ffid \in QueryFfids :
        \E out \in get_picks_for_gather(picks, ffid) :
            /\ op' = "get_picks_for_gather"
            /\ called' = called \cup {"get_picks_for_gather"}
            /\ arg' = ffid
            /\ ret' = [NoValue EXCEPT !.kind = "ok", !.seq = out.result]
            /\ picks' = out.picks
            /\ UNCHANGED <<stream, stream0, picks0, wavFile, pickFile>>

\* The caller holds a stream and a pick table of at most MaxInput traces and
\* rows together; no call has been made.
InitSelect ==
    /\ \E n \in 0..MaxInput : \E m \in 0..(MaxInput - n) :
          /\ stream \in StreamsOfLen(n)
          /\ picks \in TablesOfLen(m)
    /\ stream0 = stream
    /\ picks0 = picks
    /\ wavFile = NoFile
    /\ pickFile = NoPickFile
    /\ op = "none"
    /\ arg = 0
    /\ called = {}
    /\ ret = NoValue

NextSelect == Call_get_gather \/ Call_get_picks_for_gather

SpecSelect == InitSelect /\ [][NextSelect]_vars

\* ------------------------------------------------------------------------
\* read_wavelet

Raise(exc, err, opened) ==
    [NoValue EXCEPT !.kind = "error", !.exc = exc, !.err = err, !.opened = opened]

IsNumeric(tok) == tok \in {"1", "2"}

\* float(tok) for a numeric token.
ToFloat(tok) == CASE tok = "1" -> 1 [] tok = "2" -> 2

\* np.loadtxt(filepath, delimiter=",", skiprows=1): drops the first line,
\* converts every token of the others to a float, needs the same number of
\* columns on every line, and squeezes the result (ndmin=0): no line gives
\* shape (0,), a single row or a single column a one-dimensional array, a
\* single value a zero-dimensional one.
np_loadtxt(file) ==
    IF ~file.exists THEN Raise("FileNotFoundError", "FileError", TRUE)
    ELSE LET body == IF file.lines = <<>> THEN <<>> ELSE Tail(file.lines)
             n == Len(body)
             m == IF n = 0 THEN 0 ELSE Len(body[1])
         IN IF \E i \in 1..n : \E j \in 1..Len(body[i]) : ~IsNumeric(body[i][j])
            THEN Raise("ValueError", "FormatError", TRUE)
            ELSE IF \E i \in 1..n : Len(body[i]) # m
            THEN Raise("ValueError", "FormatError", TRUE)
            ELSE [kind |-> "ok",
                  shape |-> IF n = 0 THEN <<0>>
                            ELSE SelectSeq(<<n, m>>, LAMBDA d : d # 1),
                  rows |-> [i \in 1..n |-> [j \in 1..m |-> ToFloat(body[i][j])]]]

\* np.fromfile(filepath, dtype=np.float64)
np_fromfile(file) ==
    IF ~file.exists THEN Raise("FileNotFoundError", "FileError", TRUE)
    ELSE [kind |-> "ok", shape |-> <<Len(file.floats)>>, rows |-> file.floats]

\* Variant that drops a trailing odd value instead of failing.
reshape_truncating(a) ==
    IF a.kind # "ok" THEN a
    ELSE [kind |-> "ok", shape |-> <<a.shape[1] \div 2, 2>>,
          rows |-> [i \in 1..(a.shape[1] \div 2) |->
                       <<a.rows[2 * i - 1], a.rows[2 * i]>>]]

\* .reshape(-1, 2) of a one-dimensional array: ValueError unless the size is
\* a multiple of 2; row i holds elements 2i-1 and 2i (row-major order).
reshape(a) ==
    IF a.kind # "ok" THEN a
    ELSE IF a.shape[1] % 2 # 0 THEN Raise("ValueError", "FormatError", TRUE)
    ELSE [kind |-> "ok", shape |-> <<a.shape[1] \div 2, 2>>,
          rows |-> [i \in 1..(a.shape[1] \div 2) |->
                       <<a.rows[2 * i - 1], a.rows[2 * i]>>]]

\* Variant that takes column 0 for the amplitude too.
take_columns_same(data) ==
    IF data.kind # "ok" THEN data
    ELSE IF Len(data.shape) < 2 \/ data.shape[2] < 2
    THEN Raise("IndexError", "IndexError", TRUE)
    ELSE [NoValue EXCEPT !.kind = "ok", !.opened = TRUE,
              !.time = [i \in 1..data.shape[1] |-> data.rows[i][1]],
              !.amplitude = [i \in 1..data.shape[1] |-> data.rows[i][1]]]

\* time = data[:, 0]; amplitude = data[:, 1]; return time, amplitude.
\* Indexing two axes of an array of fewer dimensions is an IndexError.
take_columns(data) ==
    IF data.kind # "ok" THEN data
    ELSE IF Len(data.shape) < 2 \/ data.shape[2] < 2
    THEN Raise("IndexError", "IndexError", TRUE)
    ELSE [NoValue EXCEPT !.kind = "ok", !.opened = TRUE,
              !.time = [i \in 1..data.shape[1] |-> data.rows[i][1]],
              !.amplitude = [i \in 1..data.shape[1] |-> data.rows[i][2]]]

\* raise ValueError(f"Unsupported wavelet format: {fmt}. Use 'csv' or 'binary'.")
unsupported_format(fmt, opened) ==
    [Raise("ValueError", "InvalidConfig", opened) EXCEPT
        !.value = fmt, !.accepted = {"csv", "binary"}]

\* Variant that reads any unrecognised format as csv.
read_wavelet_default_csv(file, fmt) ==
    IF fmt = "binary" THEN take_columns(reshape(np_fromfile(file)))
    ELSE take_columns(np_loadtxt(file))

\* Variant that opens the file before looking at fmt.
read_wavelet_open_first(file, fmt) ==
    IF ~file.exists THEN Raise("FileNotFoundError", "FileError", TRUE)
    ELSE IF fmt = "csv" THEN take_columns(np_loadtxt(file))
    ELSE IF fmt = "binary" THEN take_columns(reshape(np_fromfile(file)))
    ELSE unsupported_format(fmt, TRUE)

read_wavelet(file, fmt) ==
    IF fmt = "csv" THEN take_columns(np_loadtxt(file))
    ELSE IF fmt = "binary" THEN take_columns(reshape(np_fromfile(file)))
    ELSE unsupported_format(fmt, FALSE)

Fmts == {"csv", "binary", "bogus", "CSV", ""}

Call_read_wavelet ==
    \E fmt \in Fmts :
        /\ op' = "read_wavelet"
        /\ called' = called \cup {"read_wavelet"}
        /\ arg' = fmt
        /\ ret' = read_wavelet(wavFile, fmt)
        /\ UNCHANGED <<stream, picks, stream0, picks0, wavFile, pickFile>>

InitWavelet ==
    /\ wavFile \in {NoFile} \cup BinaryFiles \cup TextFiles
    /\ pickFile = NoPickFile
    /\ stream = <<>>
    /\ picks = <<>>
    /\ stream0 = stream
    /\ picks0 = picks
    /\ op = "none"
    /\ arg = ""
    /\ called = {}
    /\ ret = NoValue

NextWavelet == Call_read_wavelet

SpecWavelet == InitWavelet /\ [][NextWavelet]_vars

\* ------------------------------------------------------------------------
\* read_picks

\* pd.read_csv(filepath)
pd_read_csv(file) ==
    IF ~file.exists THEN Raise("FileNotFoundError", "FileError", TRUE)
    ELSE IF ~file.wellformed THEN Raise("ParserError", "FormatError", TRUE)
    ELSE [NoValue EXCEPT !.kind = "ok", !.opened = TRUE, !.table = file.table]

required == {"TIME", "FFID", "CHANNEL"}

\* Variant with the set difference the other way round.
read_picks_reversed(file) ==
    LET parsed == pd_read_csv(file) IN
    IF parsed.kind # "ok" THEN parsed
    ELSE LET missing == parsed.table.columns \ required IN
         IF missing # {}
         THEN [Raise("ValueError", "MissingColumns", TRUE) EXCEPT !.names = missing]
         ELSE parsed

read_picks(file) ==
    LET parsed == pd_read_csv(file) IN
    IF parsed.kind # "ok" THEN parsed
    ELSE LET missing == required \ parsed.table.columns IN
         IF missing # {}
         THEN [Raise("ValueError", "MissingColumns", TRUE) EXCEPT !.names = missing]
         ELSE parsed

Call_read_picks ==
    /\ op' = "read_picks"
    /\ called' = called \cup {"read_picks"}
    /\ arg' = ""
    /\ ret' = read_picks(pickFile)
    /\ UNCHANGED <<stream, picks, stream0, picks0, wavFile, pickFile>>

InitPicksFile ==
    /\ pickFile \in PickFiles
    /\ wavFile = NoFile
    /\ stream = <<>>
    /\ picks = <<>>
    /\ stream0 = stream
    /\ picks0 = picks
    /\ op = "none"
    /\ arg = ""
    /\ called = {}
    /\ ret = NoValue

NextPicksFile == Call_read_picks

SpecPicksFile == InitPicksFile /\ [][NextPicksFile]_vars

\* ------------------------------------------------------------------------
\* Properties of the selectors

\* The traces of s whose field record number is ffid, in order.
MatchingTraces(s, ffid) == SelectSeq(s, LAMBDA tr : tr.FieldRecord = ffid)

\* The rows of p whose FFID is ffid, in order.
MatchingRows(p, ffid) == SelectSeq(p, LAMBDA row : row.FFID = ffid)

Count(q, x) == Cardinality({i \in DOMAIN q : q[i] = x})

SameRows(q, r) == \A row \in PickRow : Count(q, row) = Count(r, row)

RECURSIVE SumOver(_, _)
SumOver(S, size) ==
    IF S = {} THEN 0
    ELSE LET x == CHOOSE y \in S : TRUE IN size[x] + SumOver(S \ {x}, size)

TraceFfids(s) == {s[i].FieldRecord : i \in DOMAIN s}
RowFfids(p) == {p[i].FFID : i \in DOMAIN p}

\* C1: get_gather returns only traces whose FieldRecord equals ffid, and the
\* empty collection when no trace of the input matches.
C1_OnlyMatchingTraces ==
    op = "get_gather" =>
        /\ \A i \in DOMAIN ret.seq : ret.seq[i].FieldRecord = arg
        /\ (MatchingTraces(stream0, arg) = <<>> => ret.seq = <<>>)

\* C2: get_gather is a stable filter: its result is exactly the subsequence
\* of the input made of the traces whose FFID equals ffid, each once and in
\* input order.
C2_StableFilter ==
    op = "get_gather" => ret.seq = MatchingTraces(stream0, arg)

\* C3: get_picks_for_gather returns exactly the rows of the input whose FFID
\* equals ffid (same multiset), with CHANNEL non-decreasing from each row to
\* the next, and an empty table when no row matches.
C3_PicksFilteredAndSorted ==
    op = "get_picks_for_gather" =>
        /\ SameRows(ret.seq, MatchingRows(picks0, arg))
        /\ Len(ret.seq) = Len(MatchingRows(picks0, arg))
        /\ \A i \in 1..(Len(ret.seq) - 1) :
              ret.seq[i].CHANNEL <= ret.seq[i + 1].CHANNEL
        /\ (MatchingRows(picks0, arg) = <<>> => ret.seq = <<>>)
        /\ ret.kind = "ok"

\* A call dropped a row of another shot and had to reorder the rest.
C3_Witness ==
    /\ op = "get_picks_for_gather"
    /\ Len(ret.seq) >= 2
    /\ Len(ret.seq) < Len(picks0)
    /\ ret.seq # MatchingRows(picks0, arg)

\* C9: after any sequence of get_gather and get_picks_for_gather calls the
\* input stream holds the same traces in the same order and the input pick
\* table the same rows in the same order as before the calls.
C9_InputsUnchanged == stream = stream0 /\ picks = picks0

\* Both selectors have been called, the last one returning a table that is
\* not the input table, and the gather of the stream is not the stream.
C9_Witness ==
    /\ called = {"get_gather", "get_picks_for_gather"}
    /\ op = "get_picks_for_gather"
    /\ ret.seq # <<>>
    /\ ret.seq # picks0
    /\ get_gather(stream, 1).gather # stream

\* C10: the selectors partition their input by shot id: the pick selections
\* over the FFIDs present hold every input row exactly once between them, the
\* gather sizes over the FFIDs present add up to the number of traces, and
\* get_gather of a gather with the same ffid is that gather.
C10_PicksPartition ==
    /\ \A choice \in [RowFfids(picks) -> UNION {sort_values(MatchingRows(picks, f)) : f \in RowFfids(picks)}] :
          (\A f \in RowFfids(picks) :
              \E out \in get_picks_for_gather(picks, f) : out.result = choice[f])
          => \A row \in PickRow :
                SumOver(RowFfids(picks),
                        [f \in RowFfids(picks) |-> Count(choice[f], row)])
                    = Count(picks, row)

C10_PartitionByShot ==
    op # "none" =>
    /\ C10_PicksPartition
    /\ SumOver(TraceFfids(stream),
               [f \in TraceFfids(stream) |-> Len(get_gather(stream, f).gather)])
          = Len(stream)
    /\ \A f \in QueryFfids :
          LET g == get_gather(stream, f).gather IN
          get_gather(g, f).gather = g

\* ------------------------------------------------------------------------
\* Properties of the readers

\* C4: read_picks fails with MissingColumns exactly when one of TIME, FFID,
\* CHANNEL is absent from the parsed columns; the error lists exactly the
\* absent ones; with all three present the parsed table is returned with
\* every column untouched.
C4_MissingColumns ==
    (op = "read_picks" /\ pickFile.exists /\ pickFile.wellformed) =>
        LET cols == pickFile.table.columns
            absent == {c \in {"TIME", "FFID", "CHANNEL"} : c \notin cols}
        IN /\ (ret.err = "MissingColumns") <=> (absent # {})
           /\ ret.err = "MissingColumns" =>
                 /\ ret.kind = "error"
                 /\ \A c \in ColNames : c \in ret.names <=> c \in absent
                 /\ ret.names \subseteq ColNames
                 /\ ret.table = NoTable
           /\ absent = {} => ret.kind = "ok" /\ ret.table = pickFile.table

\* A file with an extra column and a wrong-case one, lacking two required
\* columns, was read.
C4_Witness ==
    /\ op = "read_picks"
    /\ pickFile.exists /\ pickFile.wellformed
    /\ pickFile.table.columns = {"TIME", "time", "QUALITY"}
    /\ ret.names = {"FFID", "CHANNEL"}

\* C5: for every fmt other than "csv" and "binary" read_wavelet fails with
\* InvalidConfig naming the value passed and the accepted set, and returns
\* no (time, amplitude); for "csv" and "binary" it never fails with
\* InvalidConfig.
C5_InvalidConfig ==
    op = "read_wavelet" =>
        /\ arg \notin {"csv", "binary"} =>
              /\ ret.kind = "error"
              /\ ret.err = "InvalidConfig"
              /\ ret.value = arg
              /\ ret.accepted = {"csv", "binary"}
              /\ ret.time = <<>> /\ ret.amplitude = <<>>
        /\ arg \in {"csv", "binary"} => ret.err # "InvalidConfig"

\* read_wavelet was called with fmt "bogus" on a CSV file that fmt "csv"
\* reads successfully.
C5_Witness ==
    /\ op = "read_wavelet"
    /\ arg = "bogus"
    /\ ret.err = "InvalidConfig"
    /\ read_wavelet(wavFile, "csv").kind = "ok"

\* C6: read_wavelet with fmt "binary" on a file holding an odd number of
\* float64 values fails with a format error and returns no result, never a
\* truncated pair; on an even count 2N it returns N pairs.
C6_OddBinaryFails ==
    (op = "read_wavelet" /\ arg = "binary" /\ wavFile.exists) =>
        IF Len(wavFile.floats) % 2 = 1
        THEN /\ ret.kind = "error"
             /\ ret.err = "FormatError"
             /\ ret.time = <<>> /\ ret.amplitude = <<>>
        ELSE /\ ret.kind = "ok"
             /\ 2 * Len(ret.time) = Len(wavFile.floats)
             /\ 2 * Len(ret.amplitude) = Len(wavFile.floats)

\* A binary file of three values was read as "binary".
C6_Witness ==
    /\ op = "read_wavelet"
    /\ arg = "binary"
    /\ Len(wavFile.floats) = 3
    /\ ret.kind = "error"

\* C7: whenever read_wavelet returns successfully, time and amplitude have
\* the same length and are index-aligned in file order: for binary input v,
\* time[i] = v[2i] and amplitude[i] = v[2i+1] (counting from 0); for csv
\* input, time[i] and amplitude[i] are the first and second column of data
\* row i, the rows after the single header row.
C7_Aligned ==
    (op = "read_wavelet" /\ ret.kind = "ok") =>
        /\ Len(ret.time) = Len(ret.amplitude)
        /\ arg = "binary" =>
              /\ 2 * Len(ret.time) = Len(wavFile.floats)
              /\ \A i \in 1..Len(ret.time) :
                    /\ ret.time[i] = wavFile.floats[2 * i - 1]
                    /\ ret.amplitude[i] = wavFile.floats[2 * i]
        /\ arg = "csv" =>
              /\ Len(ret.time) = Len(wavFile.lines) - 1
              /\ \A i \in 1..Len(ret.time) :
                    /\ ret.time[i] = ToFloat(wavFile.lines[i + 1][1])
                    /\ ret.amplitude[i] = ToFloat(wavFile.lines[i + 1][2])

\* A CSV file with a header and two data rows was read, and time and
\* amplitude differ.
C7_Witness ==
    /\ op = "read_wavelet"
    /\ arg = "csv"
    /\ ret.kind = "ok"
    /\ Len(ret.time) = 2
    /\ ret.time # ret.amplitude

\* C8: for an unrecognized fmt, InvalidConfig is raised without the file at
\* filepath being opened or read, so the outcome is InvalidConfig, never
\* FileError or FormatError, whatever the state of the file.
C8_ValidationBeforeFileAccess ==
    (op = "read_wavelet" /\ arg \notin {"csv", "binary"}) =>
        /\ ~ret.opened
        /\ ret.err = "InvalidConfig"
        /\ ret.err \notin {"FileError", "FormatError"}

\* read_wavelet was called with an unrecognized fmt on a missing file.
C8_Witness ==
    /\ op = "read_wavelet"
    /\ arg \notin {"csv", "binary"}
    /\ ~wavFile.exists
    /\ ret.kind = "error"

====
